---- MODULE Spec2Model ----
(***************************************************************************)
(* The EuroMillions lottery contract (src/unnamed/part_001) as a state     *)
(* machine.  Every external function is one action; a call that reverts    *)
(* leaves the contract storage and every balance as they were.             *)
(* Amounts are in gwei (1 ether = 10^9 gwei), so that 0.01 ether fits the  *)
(* integers of the model checker.  With at most six winning tickets every  *)
(* quotient of the contract is the same in gwei as in wei; with seven or   *)
(* more the contract's division is carried out on whole gwei, the same     *)
(* floor and remainder on a coarser unit.  Timestamps are in seconds.      *)
(***************************************************************************)
EXTENDS Integers, Sequences, FiniteSets, TLC

\* ------------------------------------------------------------ constants
TICKET_PRICE == 10000000
HOUSE_FEE_PERCENT == 1
SevenDays == 604800
MainMax == 50
StarMax == 12

\* ------------------------------------------------------------ bounds
MaxDrawId == 3
MaxTickets == 2
MaxWindows == 2
MaxRequestId == 2
DeployTime == 1
MaxBulkTickets == 8

Owner == "owner"
Coordinator == "coordinator"
Accounts == {"owner", "alice", "bob"}
Buyers == {"alice", "bob"}
DrawIds == 0..MaxDrawId
RequestIds == 0..MaxRequestId
MaxTime == DeployTime + MaxWindows * (SevenDays + 1)

\* the purchases offered to buyTicket: at the ticket price, the pick of
\* the tests in another order and a pick that differs from it in one star;
\* picks the validator must reject (a duplicate, a value below and above
\* the range); an under- and an over-payment
Purchase(value, mainNumbers, luckyStars) ==
  [ value |-> value, mainNumbers |-> mainNumbers, luckyStars |-> luckyStars ]
ValidPurchases ==
  { Purchase(TICKET_PRICE, <<5, 4, 3, 2, 1>>, <<2, 1>>),
    Purchase(TICKET_PRICE, <<1, 2, 3, 4, 5>>, <<1, 3>>) }
Purchases ==
  ValidPurchases \cup
  { Purchase(TICKET_PRICE, <<1, 2, 2, 4, 5>>, <<1, 2>>),
    Purchase(TICKET_PRICE, <<0, 2, 3, 4, 5>>, <<1, 2>>),
    Purchase(TICKET_PRICE, <<1, 2, 3, 4, 51>>, <<1, 2>>),
    Purchase(TICKET_PRICE, <<1, 2, 3, 4, 5>>, <<1, 1>>),
    Purchase(TICKET_PRICE, <<1, 2, 3, 4, 5>>, <<0, 2>>),
    Purchase(TICKET_PRICE, <<1, 2, 3, 4, 5>>, <<1, 13>>),
    Purchase(TICKET_PRICE \div 2, <<1, 2, 3, 4, 5>>, <<1, 2>>),
    Purchase(2 * TICKET_PRICE, <<1, 2, 3, 4, 5>>, <<1, 2>>) }

\* the deliveries offered to fulfillRandomWords: words that give the pick
\* of the tests (in order; out of order and above the modulus; with an
\* eighth word), words that give 1 2 3 4 6 / 1 2, words with two main
\* numbers or two stars congruent, six words only; and the accounts that
\* refuse an incoming transfer during the call
Delivery(randomWords, refusing) ==
  [ randomWords |-> randomWords, refusing |-> refusing ]
Deliveries ==
  { Delivery(<<0, 1, 2, 3, 4, 0, 1>>, {}),
    Delivery(<<54, 3, 2, 51, 100, 13, 12>>, {}),
    Delivery(<<0, 1, 2, 3, 4, 0, 1, 7>>, {}),
    Delivery(<<0, 1, 2, 3, 5, 0, 1>>, {}),
    Delivery(<<0, 50, 2, 3, 4, 0, 1>>, {}),
    Delivery(<<0, 1, 2, 3, 4, 0, 12>>, {}),
    Delivery(<<0, 1, 2, 3, 4, 0>>, {}),
    Delivery(<<0, 1, 2, 3, 4, 0, 1>>, {"owner"}),
    Delivery(<<0, 1, 2, 3, 4, 0, 1>>, {"bob"}) }

\* the words offered to the resolver on its own: a 7-word sequence is any
\* five of MainWords followed by any two of StarWords, among them words at
\* and above the modulus and words congruent to one another
MainWords == {0, 1, 2, 3, 4, 50, 99}
StarWords == {0, 1, 11, 12}

\* the values offered to the validators on their own: a main pick is any
\* five of PickValues and a star pick any two of StarPickValues, among them
\* the ends of both ranges, the values just outside them and repetitions
PickValues == {0, 1, 2, 3, 49, 50, 51}
StarPickValues == {0, 1, 12, 13}

VARIABLES
  currentDrawId,       \* uint256 currentDrawId
  draws,               \* mapping(uint256 => Draw) draws
  playerTickets,       \* mapping(uint256 => mapping(address => Ticket[]))
  vrfRequestIdToDraw,  \* mapping(uint256 => uint256)
  paused,              \* Pausable._paused
  balance,             \* address(this).balance
  received,            \* per account, the total it was sent by the contract
  now,                 \* block.timestamp
  nextRequestId,       \* the request id the coordinator hands out next
  accepted,            \* per draw, the buyTicket calls that did not revert
  requests,            \* per draw, the requestDrawRandomness calls that did not revert
  settlements          \* per draw, the runs of _findWinnersAndDistribute to its end

store == <<currentDrawId, draws, playerTickets, vrfRequestIdToDraw, paused,
           balance, received>>
vars == <<currentDrawId, draws, playerTickets, vrfRequestIdToDraw, paused,
          balance, received, now, nextRequestId, accepted, requests,
          settlements>>

\* ------------------------------------------------------------ storage
ZeroDraw ==
  [ drawId |-> 0, totalPrizePool |-> 0, totalTickets |-> 0,
    winningMainNumbers |-> <<0, 0, 0, 0, 0>>, winningLuckyStars |-> <<0, 0>>,
    winners |-> <<>>, isCompleted |-> FALSE, randomnessRequested |-> FALSE,
    drawStartTime |-> 0, drawEndTime |-> 0,
    ticketCounts |-> [a \in Accounts |-> 0], players |-> <<>> ]

\* the contract's storage and the balances, as one value
State ==
  [ currentDrawId |-> currentDrawId, draws |-> draws,
    playerTickets |-> playerTickets, vrfRequestIdToDraw |-> vrfRequestIdToDraw,
    paused |-> paused, balance |-> balance, received |-> received ]

Ok(s) == [ err |-> "", s |-> s ]
Revert(s, e) == [ err |-> e, s |-> s ]

\* ------------------------------------------------------------ helpers
_startNewDraw(s, t) ==
  LET id == s.currentDrawId + 1 IN
  [ s EXCEPT !.currentDrawId = id,
             !.draws[id].drawId = id,
             !.draws[id].drawStartTime = t,
             !.draws[id].drawEndTime = t + SevenDays,
             !.draws[id].totalPrizePool = 0,
             !.draws[id].totalTickets = 0,
             !.draws[id].isCompleted = FALSE,
             !.draws[id].randomnessRequested = FALSE ]

\* the validation loop with the upper end of the range excluded
RECURSIVE ValidateFrom_BelowMax(_, _, _, _)
ValidateFrom_BelowMax(numbers, i, used, max) ==
  IF i > Len(numbers) THEN TRUE
  ELSE IF numbers[i] < 1 \/ numbers[i] >= max THEN FALSE
  ELSE IF numbers[i] \in used THEN FALSE
  ELSE ValidateFrom_BelowMax(numbers, i + 1, used \cup {numbers[i]}, max)

\* the loop of _validateMainNumbers / _validateLuckyStars from index i on,
\* with `used` the values seen so far
RECURSIVE ValidateFrom(_, _, _, _)
ValidateFrom(numbers, i, used, max) ==
  IF i > Len(numbers) THEN TRUE
  ELSE IF numbers[i] < 1 \/ numbers[i] > max THEN FALSE
  ELSE IF numbers[i] \in used THEN FALSE
  ELSE ValidateFrom(numbers, i + 1, used \cup {numbers[i]}, max)

_validateMainNumbers(numbers) == ValidateFrom(numbers, 1, {}, MainMax)
_validateLuckyStars(stars) == ValidateFrom(stars, 1, {}, StarMax)

\* InputValidator of scripts/utils/validation.ts: the message of the
\* ValidationError thrown, or "" when the method returns.  The arrays of
\* the model hold integers only, so Number.isInteger is true of each element.
InputValidator_validateMainNumbers(numbers) ==
  IF Len(numbers) # 5
    THEN "Main numbers must be an array of exactly 5 numbers"
  ELSE IF \E k \in 1..Len(numbers) : numbers[k] < 1 \/ numbers[k] > 50
    THEN "Main numbers must be integers between 1 and 50"
  ELSE IF Cardinality({ numbers[k] : k \in 1..Len(numbers) }) # Len(numbers)
    THEN "Main numbers must be unique"
  ELSE ""

InputValidator_validateLuckyStars(stars) ==
  IF Len(stars) # 2
    THEN "Lucky stars must be an array of exactly 2 numbers"
  ELSE IF \E k \in 1..Len(stars) : stars[k] < 1 \/ stars[k] > 12
    THEN "Lucky stars must be integers between 1 and 12"
  ELSE IF stars[1] = stars[2]
    THEN "Lucky stars must be unique"
  ELSE ""

\* the modifier without its test of drawEndTime
onlyActiveDraw_NoEnd(s, t) == ~ (t < s.draws[s.currentDrawId].drawStartTime)

\* the modifier closing the window one second late
onlyActiveDraw_OneLate(s, t) ==
  ~ ( t < s.draws[s.currentDrawId].drawStartTime
      \/ t > s.draws[s.currentDrawId].drawEndTime + 1 )

onlyActiveDraw(s, t) ==
  ~ ( t < s.draws[s.currentDrawId].drawStartTime
      \/ t > s.draws[s.currentDrawId].drawEndTime )


\* one inner pass of the bubble sort: compare and swap positions j, j+1
\* for j up to lim
RECURSIVE SortInner(_, _, _)
SortInner(a, j, lim) ==
  IF j > lim THEN a
  ELSE SortInner(IF a[j] > a[j + 1]
                 THEN [a EXCEPT ![j] = a[j + 1], ![j + 1] = a[j]]
                 ELSE a, j + 1, lim)

RECURSIVE SortOuter(_, _)
SortOuter(a, i) ==
  IF i >= 4 THEN a ELSE SortOuter(SortInner(a, 1, 4 - i), i + 1)

\* the bubble sort stopping after its first pass
_sortMainNumbers_OnePass(numbers) == SortInner(numbers, 1, 4)

_sortMainNumbers(numbers) == SortOuter(numbers, 0)

_sortLuckyStars(stars) ==
  IF stars[1] > stars[2] THEN <<stars[2], stars[1]>> ELSE stars

\* _isWinningTicket comparing the ticket as it was entered
_isWinningTicket_Unsorted(ticket, winningMainNumbers, winningLuckyStars) ==
  /\ \A i \in 1..5 : ticket.mainNumbers[i] = winningMainNumbers[i]
  /\ \A i \in 1..2 : ticket.luckyStars[i] = winningLuckyStars[i]

_isWinningTicket(ticket, winningMainNumbers, winningLuckyStars) ==
  LET sortedMainNumbers == _sortMainNumbers(ticket.mainNumbers)
      sortedLuckyStars == _sortLuckyStars(ticket.luckyStars)
  IN /\ \A i \in 1..5 : sortedMainNumbers[i] = winningMainNumbers[i]
     /\ \A i \in 1..2 : sortedLuckyStars[i] = winningLuckyStars[i]

\* the two generation loops of fulfillRandomWords: `count` numbers from
\* words[offset .. offset+count-1] (0-based), each (word % mod) + 1.  The
\* do-while recomputes the same value from the same word, so a value that
\* is already used never leaves the loop: the call runs out of gas.  A word
\* index past the end of the array is a panic.
RECURSIVE GenerateFrom(_, _, _, _, _, _, _)
GenerateFrom(randomWords, offset, i, count, mod, used, acc) ==
  IF i = count THEN [ err |-> "", numbers |-> acc ]
  ELSE IF offset + i + 1 > Len(randomWords)
       THEN [ err |-> "Panic", numbers |-> acc ]
  ELSE LET number == (randomWords[offset + i + 1] % mod) + 1 IN
       IF number \in used THEN [ err |-> "OutOfGas", numbers |-> acc ]
       ELSE GenerateFrom(randomWords, offset, i + 1, count, mod,
                         used \cup {number}, Append(acc, number))

GenerateMainNumbers(randomWords) ==
  GenerateFrom(randomWords, 0, 0, 5, MainMax, {}, <<>>)
GenerateLuckyStars(randomWords) ==
  GenerateFrom(randomWords, 5, 0, 2, StarMax, {}, <<>>)

\* payable(to).call{value: amount}(""): fails when the payee refuses or the
\* contract holds less than amount
CanSend(s, to, amount, refusing) == to \notin refusing /\ amount <= s.balance
\* a transfer that reaches the payee without leaving the contract
Send_NoDebit(s, to, amount) == [ s EXCEPT !.received[to] = @ + amount ]

Send(s, to, amount) ==
  [ s EXCEPT !.balance = @ - amount, !.received[to] = @ + amount ]

\* the winners loop entering a participant once, however many of its
\* tickets win
RECURSIVE CollectWinners_PerPlayer(_, _, _)
CollectWinners_PerPlayer(s, drawId, i) ==
  LET draw == s.draws[drawId] IN
  IF i > Len(draw.players) THEN <<>>
  ELSE LET player == draw.players[i]
           winning == SelectSeq(s.playerTickets[drawId][player],
                        LAMBDA tk : _isWinningTicket(tk, draw.winningMainNumbers,
                                                     draw.winningLuckyStars))
       IN (IF Len(winning) > 0 THEN <<player>> ELSE <<>>)
            \o CollectWinners_PerPlayer(s, drawId, i + 1)

\* the winners loop of _findWinnersAndDistribute: players in the order of
\* draw.players, each player's tickets in order, one entry per winning ticket
RECURSIVE CollectWinners(_, _, _)
CollectWinners(s, drawId, i) ==
  LET draw == s.draws[drawId] IN
  IF i > Len(draw.players) THEN <<>>
  ELSE LET player == draw.players[i]
           winning == SelectSeq(s.playerTickets[drawId][player],
                        LAMBDA tk : _isWinningTicket(tk, draw.winningMainNumbers,
                                                     draw.winningLuckyStars))
       IN [k \in 1..Len(winning) |-> player] \o CollectWinners(s, drawId, i + 1)

\* the prize loop going on to the next winner when a transfer fails
RECURSIVE PayWinners_SkipFailed(_, _, _, _, _)
PayWinners_SkipFailed(s, finalWinners, i, prizePerWinner, refusing) ==
  IF i > Len(finalWinners) THEN Ok(s)
  ELSE IF ~ CanSend(s, finalWinners[i], prizePerWinner, refusing)
       THEN PayWinners_SkipFailed(s, finalWinners, i + 1, prizePerWinner, refusing)
  ELSE PayWinners_SkipFailed(Send(s, finalWinners[i], prizePerWinner),
                             finalWinners, i + 1, prizePerWinner, refusing)

\* the prize loop: one transfer per entry of finalWinners
RECURSIVE PayWinners(_, _, _, _, _)
PayWinners(s, finalWinners, i, prizePerWinner, refusing) ==
  IF i > Len(finalWinners) THEN Ok(s)
  ELSE IF ~ CanSend(s, finalWinners[i], prizePerWinner, refusing)
       THEN Revert(s, "TransferFailed")
  ELSE PayWinners(Send(s, finalWinners[i], prizePerWinner), finalWinners,
                  i + 1, prizePerWinner, refusing)

\* the house fee taken at the winners' percentage
HouseFee_WinnerShare(pool) == (pool * 99) \div 100

HouseFee(pool) == (pool * HOUSE_FEE_PERCENT) \div 100

\* _findWinnersAndDistribute collecting the house fee without winners too
_findWinnersAndDistribute_FeeAlways(s, t, drawId, refusing) ==
  LET finalWinners == CollectWinners(s, drawId, 1)
      winnerCount == Len(finalWinners)
      s1 == [ s EXCEPT !.draws[drawId].winners = finalWinners,
                       !.draws[drawId].isCompleted = TRUE ]
      pool == s1.draws[drawId].totalPrizePool
      houseFee == HouseFee(pool)
      totalWinnings == pool - houseFee
  IN IF ~ CanSend(s1, Owner, houseFee, refusing)
     THEN Revert(s, "TransferFailed")
     ELSE IF winnerCount > 0
     THEN LET paid == PayWinners(Send(s1, Owner, houseFee), finalWinners, 1,
                                 totalWinnings \div winnerCount, refusing)
          IN IF paid.err # "" THEN Revert(s, paid.err)
             ELSE Ok(_startNewDraw(paid.s, t))
     ELSE Ok(_startNewDraw(Send(s1, Owner, houseFee), t))

\* _findWinnersAndDistribute clearing the recorded pool once it has paid
_findWinnersAndDistribute_PoolCleared(s, t, drawId, refusing) ==
  LET finalWinners == CollectWinners(s, drawId, 1)
      winnerCount == Len(finalWinners)
      s1 == [ s EXCEPT !.draws[drawId].winners = finalWinners,
                       !.draws[drawId].isCompleted = TRUE ]
      pool == s1.draws[drawId].totalPrizePool
      houseFee == HouseFee(pool)
      totalWinnings == pool - houseFee
  IN IF winnerCount > 0
     THEN LET prizePerWinner == totalWinnings \div winnerCount IN
          IF ~ CanSend(s1, Owner, houseFee, refusing)
          THEN Revert(s, "TransferFailed")
          ELSE LET paid == PayWinners(Send(s1, Owner, houseFee), finalWinners, 1,
                                      prizePerWinner, refusing)
               IN IF paid.err # "" THEN Revert(s, paid.err)
                  ELSE Ok(_startNewDraw(
                            [ paid.s EXCEPT !.draws[drawId].totalPrizePool = 0 ], t))
     ELSE Ok(_startNewDraw(s1, t))

_findWinnersAndDistribute(s, t, drawId, refusing) ==
  LET finalWinners == CollectWinners(s, drawId, 1)
      winnerCount == Len(finalWinners)
      s1 == [ s EXCEPT !.draws[drawId].winners = finalWinners,
                       !.draws[drawId].isCompleted = TRUE ]
      pool == s1.draws[drawId].totalPrizePool
      houseFee == HouseFee(pool)
      totalWinnings == pool - houseFee
  IN IF winnerCount > 0
     THEN LET prizePerWinner == totalWinnings \div winnerCount IN
          IF ~ CanSend(s1, Owner, houseFee, refusing)
          THEN Revert(s, "TransferFailed")
          ELSE LET paid == PayWinners(Send(s1, Owner, houseFee), finalWinners, 1,
                                      prizePerWinner, refusing)
               IN IF paid.err # "" THEN Revert(s, paid.err)
                  ELSE Ok(_startNewDraw(paid.s, t))
     ELSE Ok(_startNewDraw(s1, t))


\* ------------------------------------------------------------ handlers
\* Each handler maps the storage before the call to [err, s]: err = "" and
\* the storage after it, or the revert reason and the storage unchanged.

\* RecordTicket without the increment of totalTickets
RecordTicket_NoCount(s, t, sender, value, mainNumbers, luckyStars) ==
  LET id == s.currentDrawId
      ticket == [ mainNumbers |-> mainNumbers, luckyStars |-> luckyStars,
                  player |-> sender, timestamp |-> t ]
      first == s.draws[id].ticketCounts[sender] = 0
  IN [ s EXCEPT
         !.balance = @ + value,
         !.playerTickets[id][sender] = Append(@, ticket),
         !.draws[id].players = IF first THEN Append(@, sender) ELSE @,
         !.draws[id].ticketCounts[sender] = @ + 1,
         !.draws[id].totalPrizePool = @ + value ]

\* buyTicket entering the buyer in the participant list at every purchase
RecordTicket_AlwaysListed(s, t, sender, value, mainNumbers, luckyStars) ==
  LET id == s.currentDrawId
      ticket == [ mainNumbers |-> mainNumbers, luckyStars |-> luckyStars,
                  player |-> sender, timestamp |-> t ]
  IN [ s EXCEPT
         !.balance = @ + value,
         !.playerTickets[id][sender] = Append(@, ticket),
         !.draws[id].players = Append(@, sender),
         !.draws[id].ticketCounts[sender] = @ + 1,
         !.draws[id].totalTickets = @ + 1,
         !.draws[id].totalPrizePool = @ + value ]

\* buyTicket keeping only the latest ticket of the buyer
RecordTicket_Replace(s, t, sender, value, mainNumbers, luckyStars) ==
  LET id == s.currentDrawId
      ticket == [ mainNumbers |-> mainNumbers, luckyStars |-> luckyStars,
                  player |-> sender, timestamp |-> t ]
      first == s.draws[id].ticketCounts[sender] = 0
  IN [ s EXCEPT
         !.balance = @ + value,
         !.playerTickets[id][sender] = <<ticket>>,
         !.draws[id].players = IF first THEN Append(@, sender) ELSE @,
         !.draws[id].ticketCounts[sender] = @ + 1,
         !.draws[id].totalTickets = @ + 1,
         !.draws[id].totalPrizePool = @ + value ]

\* the body of buyTicket after its checks: the payment is credited to the
\* contract, the ticket and the draw statistics are recorded
RecordTicket(s, t, sender, value, mainNumbers, luckyStars) ==
  LET id == s.currentDrawId
      ticket == [ mainNumbers |-> mainNumbers, luckyStars |-> luckyStars,
                  player |-> sender, timestamp |-> t ]
      first == s.draws[id].ticketCounts[sender] = 0
  IN [ s EXCEPT
         !.balance = @ + value,
         !.playerTickets[id][sender] = Append(@, ticket),
         !.draws[id].players = IF first THEN Append(@, sender) ELSE @,
         !.draws[id].ticketCounts[sender] = @ + 1,
         !.draws[id].totalTickets = @ + 1,
         !.draws[id].totalPrizePool = @ + value ]

\* buyTicket without the whenNotPaused modifier
buyTicket_NoPauseCheck(s, t, sender, value, mainNumbers, luckyStars) ==
  IF ~ onlyActiveDraw(s, t) THEN Revert(s, "DrawNotActive")
  ELSE IF value # TICKET_PRICE THEN Revert(s, "InsufficientPayment")
  ELSE IF ~ _validateMainNumbers(mainNumbers) THEN Revert(s, "InvalidMainNumbers")
  ELSE IF ~ _validateLuckyStars(luckyStars) THEN Revert(s, "InvalidLuckyStars")
  ELSE Ok(RecordTicket(s, t, sender, value, mainNumbers, luckyStars))

\* buyTicket refusing an underpayment only
buyTicket_AtLeastPrice(s, t, sender, value, mainNumbers, luckyStars) ==
  IF ~ onlyActiveDraw(s, t) THEN Revert(s, "DrawNotActive")
  ELSE IF s.paused THEN Revert(s, "Paused")
  ELSE IF value < TICKET_PRICE THEN Revert(s, "InsufficientPayment")
  ELSE IF ~ _validateMainNumbers(mainNumbers) THEN Revert(s, "InvalidMainNumbers")
  ELSE IF ~ _validateLuckyStars(luckyStars) THEN Revert(s, "InvalidLuckyStars")
  ELSE Ok(RecordTicket(s, t, sender, value, mainNumbers, luckyStars))

buyTicket(s, t, sender, value, mainNumbers, luckyStars) ==
  IF ~ onlyActiveDraw(s, t) THEN Revert(s, "DrawNotActive")
  ELSE IF s.paused THEN Revert(s, "Paused")
  ELSE IF value # TICKET_PRICE THEN Revert(s, "InsufficientPayment")
  ELSE IF ~ _validateMainNumbers(mainNumbers) THEN Revert(s, "InvalidMainNumbers")
  ELSE IF ~ _validateLuckyStars(luckyStars) THEN Revert(s, "InvalidLuckyStars")
  ELSE Ok(RecordTicket(s, t, sender, value, mainNumbers, luckyStars))

\* the window test with < for <=
WindowClosed_AtEnd(s, t) == ~ (t < s.draws[s.currentDrawId].drawEndTime)

\* the request accepted at any time
WindowClosed_AnyTime(s, t) == TRUE

\* the window test of requestDrawRandomness: the request is refused while
\* block.timestamp <= drawEndTime
WindowClosed(s, t) == ~ (t <= s.draws[s.currentDrawId].drawEndTime)

\* requestDrawRandomness without the onlyOwner modifier
requestDrawRandomness_AnyCaller(s, t, sender, requestId) ==
  LET currentDraw == s.draws[s.currentDrawId] IN
  IF ~ WindowClosed(s, t) THEN Revert(s, "DrawNotActive")
  ELSE IF currentDraw.randomnessRequested THEN Revert(s, "RandomnessAlreadyRequested")
  ELSE IF currentDraw.isCompleted THEN Revert(s, "DrawAlreadyCompleted")
  ELSE Ok([ s EXCEPT !.draws[s.currentDrawId].randomnessRequested = TRUE,
                     !.vrfRequestIdToDraw[requestId] = s.currentDrawId ])

\* requestDrawRandomness with the whenNotPaused modifier of buyTicket
requestDrawRandomness_WhenNotPaused(s, t, sender, requestId) ==
  LET currentDraw == s.draws[s.currentDrawId] IN
  IF sender # Owner THEN Revert(s, "Unauthorized")
  ELSE IF s.paused THEN Revert(s, "Paused")
  ELSE IF ~ WindowClosed(s, t) THEN Revert(s, "DrawNotActive")
  ELSE IF currentDraw.randomnessRequested THEN Revert(s, "RandomnessAlreadyRequested")
  ELSE IF currentDraw.isCompleted THEN Revert(s, "DrawAlreadyCompleted")
  ELSE Ok([ s EXCEPT !.draws[s.currentDrawId].randomnessRequested = TRUE,
                     !.vrfRequestIdToDraw[requestId] = s.currentDrawId ])

\* requestId is the identifier the coordinator returns from
\* requestRandomWords; the coordinator is taken to accept the request
requestDrawRandomness(s, t, sender, requestId) ==
  LET currentDraw == s.draws[s.currentDrawId] IN
  IF sender # Owner THEN Revert(s, "Unauthorized")
  ELSE IF ~ WindowClosed(s, t) THEN Revert(s, "DrawNotActive")
  ELSE IF currentDraw.randomnessRequested THEN Revert(s, "RandomnessAlreadyRequested")
  ELSE IF currentDraw.isCompleted THEN Revert(s, "DrawAlreadyCompleted")
  ELSE Ok([ s EXCEPT !.draws[s.currentDrawId].randomnessRequested = TRUE,
                     !.vrfRequestIdToDraw[requestId] = s.currentDrawId ])

\* fulfillRandomWords keeping what it stored when the settlement fails
ResolveDraw_KeepOnFailure(s, t, drawId, randomWords, refusing) ==
  LET main == GenerateMainNumbers(randomWords)
      stars == GenerateLuckyStars(randomWords)
  IN IF main.err # "" THEN Revert(s, main.err)
     ELSE IF stars.err # "" THEN Revert(s, stars.err)
     ELSE LET s1 == [ s EXCEPT
                        !.draws[drawId].winningMainNumbers =
                            _sortMainNumbers(main.numbers),
                        !.draws[drawId].winningLuckyStars =
                            _sortLuckyStars(stars.numbers),
                        !.draws[drawId].isCompleted = TRUE ]
              r == _findWinnersAndDistribute(s1, t, drawId, refusing)
          IN IF r.err # "" THEN Revert(s1, r.err) ELSE r

\* fulfillRandomWords after its early return: the winning numbers are
\* generated, sorted and stored and the draw is settled
ResolveDraw(s, t, drawId, randomWords, refusing) ==
  LET main == GenerateMainNumbers(randomWords)
      stars == GenerateLuckyStars(randomWords)
  IN IF main.err # "" THEN Revert(s, main.err)
     ELSE IF stars.err # "" THEN Revert(s, stars.err)
     ELSE LET s1 == [ s EXCEPT
                        !.draws[drawId].winningMainNumbers =
                            _sortMainNumbers(main.numbers),
                        !.draws[drawId].winningLuckyStars =
                            _sortLuckyStars(stars.numbers) ]
              r == _findWinnersAndDistribute(s1, t, drawId, refusing)
          IN IF r.err # "" THEN Revert(s, r.err) ELSE r

\* the guard of fulfillRandomWords left out
AlreadyCompleted_Never(s, drawId) == FALSE

\* the guard of fulfillRandomWords: a completed draw is left alone
AlreadyCompleted(s, drawId) == s.draws[drawId].isCompleted

\* fulfillRandomWords rejecting a delivery for a completed draw
fulfillRandomWords_RevertOnCompleted(s, t, sender, requestId, randomWords, refusing) ==
  LET drawId == s.vrfRequestIdToDraw[requestId] IN
  IF sender # Coordinator
  THEN [ err |-> "OnlyCoordinatorCanFulfill", s |-> s, settled |-> FALSE ]
  ELSE IF s.draws[drawId].isCompleted
  THEN [ err |-> "DrawAlreadyCompleted", s |-> s, settled |-> FALSE ]
  ELSE LET r == ResolveDraw(s, t, drawId, randomWords, refusing)
       IN [ err |-> r.err, s |-> r.s, settled |-> r.err = "" ]

\* fulfillRandomWords reachable by any caller
fulfillRandomWords_AnyCaller(s, t, sender, requestId, randomWords, refusing) ==
  LET drawId == s.vrfRequestIdToDraw[requestId] IN
  IF AlreadyCompleted(s, drawId)
  THEN [ err |-> "", s |-> s, settled |-> FALSE ]
  ELSE LET r == ResolveDraw(s, t, drawId, randomWords, refusing)
       IN [ err |-> r.err, s |-> r.s, settled |-> r.err = "" ]

\* rawFulfillRandomWords, which admits the coordinator only, followed by
\* fulfillRandomWords; the result also says whether
\* _findWinnersAndDistribute ran to the end
fulfillRandomWords(s, t, sender, requestId, randomWords, refusing) ==
  LET drawId == s.vrfRequestIdToDraw[requestId] IN
  IF sender # Coordinator
  THEN [ err |-> "OnlyCoordinatorCanFulfill", s |-> s, settled |-> FALSE ]
  ELSE IF AlreadyCompleted(s, drawId)
  THEN [ err |-> "", s |-> s, settled |-> FALSE ]
  ELSE LET r == ResolveDraw(s, t, drawId, randomWords, refusing)
       IN [ err |-> r.err, s |-> r.s, settled |-> r.err = "" ]

pause(s, sender) ==
  IF sender # Owner THEN Revert(s, "Unauthorized")
  ELSE IF s.paused THEN Revert(s, "Paused")
  ELSE Ok([ s EXCEPT !.paused = TRUE ])

unpause(s, sender) ==
  IF sender # Owner THEN Revert(s, "Unauthorized")
  ELSE IF ~ s.paused THEN Revert(s, "NotPaused")
  ELSE Ok([ s EXCEPT !.paused = FALSE ])

\* emergencyWithdraw without its require on the current draw
emergencyWithdraw_NoDrawCheck(s, sender, refusing) ==
  IF sender # Owner THEN Revert(s, "Unauthorized")
  ELSE IF ~ s.paused THEN Revert(s, "NotPaused")
  ELSE IF ~ CanSend(s, Owner, s.balance, refusing) THEN Revert(s, "TransferFailed")
  ELSE Ok(Send(s, Owner, s.balance))

emergencyWithdraw(s, sender, refusing) ==
  IF sender # Owner THEN Revert(s, "Unauthorized")
  ELSE IF ~ s.paused THEN Revert(s, "NotPaused")
  ELSE IF ~ s.draws[s.currentDrawId].isCompleted THEN Revert(s, "Active draw exists")
  ELSE IF ~ CanSend(s, Owner, s.balance, refusing) THEN Revert(s, "TransferFailed")
  ELSE Ok(Send(s, Owner, s.balance))

\* ------------------------------------------------------------ settlement
\* with payees that call back.  A transfer is a call to the payee, whose
\* code runs before the transfer returns and may call into the contract:
\* only buyTicket is nonReentrant, and fulfillRandomWords does not enter
\* the guard, so every external function is open to the payee.  The payee
\* makes one call, ignores its failure and accepts the payment, or refuses
\* the payment.
Calls == { "accept", "refuse", "buyTicket", "requestDrawRandomness", "pause",
           "unpause", "emergencyWithdraw" }

\* the storage after payee `who` has made `call` from its receive function;
\* nextId is the request id the coordinator would hand out
ReceiveCall(s, t, who, call, nextId) ==
  CASE call = "buyTicket" ->
         buyTicket(s, t, who, TICKET_PRICE, <<1, 2, 3, 4, 5>>, <<1, 2>>).s
    [] call = "requestDrawRandomness" ->
         requestDrawRandomness(s, t, who, nextId).s
    [] call = "pause" -> pause(s, who).s
    [] call = "unpause" -> unpause(s, who).s
    [] call = "emergencyWithdraw" -> emergencyWithdraw(s, who, {}).s
    [] OTHER -> s

\* payable(to).call{value: amount}("") to a payee that answers with `call`
Transfer(s, t, to, amount, call, nextId) ==
  IF call = "refuse" \/ amount > s.balance THEN Revert(s, "TransferFailed")
  ELSE Ok(ReceiveCall(Send(s, to, amount), t, to, call, nextId))

\* the prize loop; `who` answers each prize with onPrize, the others accept
RECURSIVE PayWinnersCalling(_, _, _, _, _, _, _, _)
PayWinnersCalling(s, t, finalWinners, i, prizePerWinner, who, onPrize, nextId) ==
  IF i > Len(finalWinners) THEN Ok(s)
  ELSE LET to == finalWinners[i]
           sent == Transfer(s, t, to, prizePerWinner,
                            IF to = who THEN onPrize ELSE "accept", nextId)
       IN IF sent.err # "" THEN sent
          ELSE PayWinnersCalling(sent.s, t, finalWinners, i + 1, prizePerWinner,
                                 who, onPrize, nextId)

\* _findWinnersAndDistribute; the owner answers the house fee with onFee
_findWinnersAndDistributeCalling(s, t, drawId, onFee, who, onPrize, nextId) ==
  LET finalWinners == CollectWinners(s, drawId, 1)
      winnerCount == Len(finalWinners)
      s1 == [ s EXCEPT !.draws[drawId].winners = finalWinners,
                       !.draws[drawId].isCompleted = TRUE ]
      pool == s1.draws[drawId].totalPrizePool
      houseFee == HouseFee(pool)
      totalWinnings == pool - houseFee
  IN IF winnerCount > 0
     THEN LET prizePerWinner == totalWinnings \div winnerCount
              fee == Transfer(s1, t, Owner, houseFee, onFee, nextId)
          IN IF fee.err # "" THEN Revert(s, "TransferFailed")
             ELSE LET paid == PayWinnersCalling(fee.s, t, finalWinners, 1,
                                                prizePerWinner, who, onPrize, nextId)
                  IN IF paid.err # "" THEN Revert(s, paid.err)
                     ELSE Ok(_startNewDraw(paid.s, t))
     ELSE Ok(_startNewDraw(s1, t))

\* fulfillRandomWords called by the coordinator, with payees that call back
fulfillRandomWordsCalling(s, t, requestId, randomWords, onFee, who, onPrize, nextId) ==
  LET drawId == s.vrfRequestIdToDraw[requestId]
      main == GenerateMainNumbers(randomWords)
      stars == GenerateLuckyStars(randomWords)
  IN IF AlreadyCompleted(s, drawId)
     THEN [ err |-> "", s |-> s, settled |-> FALSE ]
     ELSE IF main.err # "" THEN [ err |-> main.err, s |-> s, settled |-> FALSE ]
     ELSE IF stars.err # "" THEN [ err |-> stars.err, s |-> s, settled |-> FALSE ]
     ELSE LET s1 == [ s EXCEPT
                        !.draws[drawId].winningMainNumbers =
                            _sortMainNumbers(main.numbers),
                        !.draws[drawId].winningLuckyStars =
                            _sortLuckyStars(stars.numbers) ]
              r == _findWinnersAndDistributeCalling(s1, t, drawId, onFee, who,
                                                    onPrize, nextId)
          IN IF r.err # "" THEN [ err |-> r.err, s |-> s, settled |-> FALSE ]
             ELSE [ err |-> "", s |-> r.s, settled |-> TRUE ]

\* ------------------------------------------------------------ queries
\* Each view maps the storage to [err, s, value]: the values returned, or
\* the revert reason; the storage is returned as it was given.
\* the modifier refusing the current draw too
drawExists_BelowCurrent(s, drawId) == drawId < s.currentDrawId

\* the modifier drawExists: passes unless drawId > currentDrawId
drawExists(s, drawId) == ~ (drawId > s.currentDrawId)

NotFound(s) == [ err |-> "DrawNotFound", s |-> s, value |-> <<>> ]

getPlayerTickets(s, drawId, player) ==
  IF ~ drawExists(s, drawId) THEN NotFound(s)
  ELSE [ err |-> "", s |-> s, value |-> s.playerTickets[drawId][player] ]

getDrawInfo(s, drawId) ==
  IF ~ drawExists(s, drawId) THEN NotFound(s)
  ELSE LET draw == s.draws[drawId] IN
       [ err |-> "", s |-> s,
         value |-> [ totalPrizePool |-> draw.totalPrizePool,
                     totalTickets |-> draw.totalTickets,
                     winningMainNumbers |-> draw.winningMainNumbers,
                     winningLuckyStars |-> draw.winningLuckyStars,
                     isCompleted |-> draw.isCompleted,
                     drawStartTime |-> draw.drawStartTime,
                     drawEndTime |-> draw.drawEndTime ] ]

getDrawWinners(s, drawId) ==
  IF ~ drawExists(s, drawId) THEN NotFound(s)
  ELSE [ err |-> "", s |-> s, value |-> s.draws[drawId].winners ]

\* getCurrentDrawStatus with the last second of the window left out
getCurrentDrawStatus_BeforeEnd(s, t) ==
  LET draw == s.draws[s.currentDrawId]
      active == t >= draw.drawStartTime /\ t < draw.drawEndTime
      timeRemaining == IF active THEN draw.drawEndTime - t ELSE 0
  IN [ err |-> "", s |-> s,
       value |-> [ drawId |-> s.currentDrawId,
                   totalPrizePool |-> draw.totalPrizePool,
                   totalTickets |-> draw.totalTickets,
                   timeLeft |-> timeRemaining, isActive |-> active ] ]

getCurrentDrawStatus(s, t) ==
  LET draw == s.draws[s.currentDrawId]
      active == t >= draw.drawStartTime /\ t <= draw.drawEndTime
      timeRemaining == IF active THEN draw.drawEndTime - t ELSE 0
  IN [ err |-> "", s |-> s,
       value |-> [ drawId |-> s.currentDrawId,
                   totalPrizePool |-> draw.totalPrizePool,
                   totalTickets |-> draw.totalTickets,
                   timeLeft |-> timeRemaining, isActive |-> active ] ]

\* ------------------------------------------------------------ actions
Commit(s) ==
  /\ currentDrawId' = s.currentDrawId
  /\ draws' = s.draws
  /\ playerTickets' = s.playerTickets
  /\ vrfRequestIdToDraw' = s.vrfRequestIdToDraw
  /\ paused' = s.paused
  /\ balance' = s.balance
  /\ received' = s.received

TicketsSold ==
  LET RECURSIVE Sum(_)
      Sum(S) == IF S = {} THEN 0
                ELSE LET d == CHOOSE x \in S : TRUE
                     IN draws[d].totalTickets + Sum(S \ {d})
  IN Sum(DrawIds)

Init ==
  LET s0 == [ currentDrawId |-> 0,
              draws |-> [d \in DrawIds |-> ZeroDraw],
              playerTickets |-> [d \in DrawIds |-> [a \in Accounts |-> <<>>]],
              vrfRequestIdToDraw |-> [q \in RequestIds |-> 0],
              paused |-> FALSE, balance |-> 0,
              received |-> [a \in Accounts |-> 0] ]
      s == _startNewDraw(s0, DeployTime)
  IN /\ currentDrawId = s.currentDrawId
     /\ draws = s.draws
     /\ playerTickets = s.playerTickets
     /\ vrfRequestIdToDraw = s.vrfRequestIdToDraw
     /\ paused = s.paused
     /\ balance = s.balance
     /\ received = s.received
     /\ now = DeployTime
     /\ nextRequestId = 1
     /\ accepted = [d \in DrawIds |-> 0]
     /\ requests = [d \in DrawIds |-> 0]
     /\ settlements = [d \in DrawIds |-> 0]

\* buyTicket called by one of `senders` with one of `purchases`, while
\* fewer than `cap` tickets were sold
BuyTicketBy(senders, purchases, cap) ==
  \E sender \in senders, p \in purchases :
    LET r == buyTicket(State, now, sender, p.value, p.mainNumbers, p.luckyStars) IN
    /\ r.err = "" => TicketsSold < cap
    /\ Commit(r.s)
    /\ accepted' = IF r.err = "" THEN [accepted EXCEPT ![currentDrawId] = @ + 1]
                   ELSE accepted
    /\ UNCHANGED <<now, nextRequestId, requests, settlements>>

BuyTicket == BuyTicketBy(Buyers, Purchases, MaxTickets)

RequestDrawRandomnessBy(senders) ==
  \E sender \in senders :
    LET r == requestDrawRandomness(State, now, sender, nextRequestId) IN
    /\ r.err = "" => nextRequestId <= MaxRequestId
    /\ Commit(r.s)
    /\ nextRequestId' = IF r.err = "" THEN nextRequestId + 1 ELSE nextRequestId
    /\ requests' = IF r.err = "" THEN [requests EXCEPT ![currentDrawId] = @ + 1]
                   ELSE requests
    /\ UNCHANGED <<now, accepted, settlements>>

RequestDrawRandomness == RequestDrawRandomnessBy({Owner, "alice"})

\* a delivery for one of `tokens`: by the coordinator with one of
\* `deliveries`, or by one of `others`
FulfillRandomWordsBy(others, tokens, deliveries) ==
  \E sender \in {Coordinator} \cup others, requestId \in tokens :
  \E d \in IF sender = Coordinator THEN deliveries
           ELSE {Delivery(<<0, 1, 2, 3, 4, 0, 1>>, {})} :
    LET r == fulfillRandomWords(State, now, sender, requestId, d.randomWords,
                                d.refusing)
        drawId == vrfRequestIdToDraw[requestId]
    IN /\ r.s.currentDrawId <= MaxDrawId
       /\ Commit(r.s)
       /\ settlements' = IF r.settled THEN [settlements EXCEPT ![drawId] = @ + 1]
                         ELSE settlements
       /\ UNCHANGED <<now, nextRequestId, accepted, requests>>

FulfillRandomWords == FulfillRandomWordsBy({"alice"}, RequestIds \ {0}, Deliveries)

Pause ==
  \E sender \in {Owner, "alice"} :
    LET r == pause(State, sender) IN
    /\ Commit(r.s)
    /\ UNCHANGED <<now, nextRequestId, accepted, requests, settlements>>

Unpause ==
  \E sender \in {Owner, "alice"} :
    LET r == unpause(State, sender) IN
    /\ Commit(r.s)
    /\ UNCHANGED <<now, nextRequestId, accepted, requests, settlements>>

EmergencyWithdraw ==
  \E sender \in {Owner, "alice"}, refusing \in {{}, {"owner"}} :
    LET r == emergencyWithdraw(State, sender, refusing) IN
    /\ Commit(r.s)
    /\ UNCHANGED <<now, nextRequestId, accepted, requests, settlements>>

\* the identifiers offered to the queries: every draw of the model and one
\* past the last
QueryIds == 0..(MaxDrawId + 1)

GetPlayerTickets ==
  \E drawId \in QueryIds, player \in Accounts :
    LET r == getPlayerTickets(State, drawId, player) IN
    /\ Commit(r.s)
    /\ UNCHANGED <<now, nextRequestId, accepted, requests, settlements>>

GetDrawInfo ==
  \E drawId \in QueryIds :
    LET r == getDrawInfo(State, drawId) IN
    /\ Commit(r.s)
    /\ UNCHANGED <<now, nextRequestId, accepted, requests, settlements>>

GetDrawWinners ==
  \E drawId \in QueryIds :
    LET r == getDrawWinners(State, drawId) IN
    /\ Commit(r.s)
    /\ UNCHANGED <<now, nextRequestId, accepted, requests, settlements>>

GetCurrentDrawStatus ==
  LET r == getCurrentDrawStatus(State, now) IN
  /\ Commit(r.s)
  /\ UNCHANGED <<now, nextRequestId, accepted, requests, settlements>>

\* a later block: the clock moves on by seven days or by seven days and a
\* second (the two steps the tests take)
AdvanceTime ==
  \E d \in {SevenDays, SevenDays + 1} :
    /\ now + d <= MaxTime
    /\ now' = now + d
    /\ UNCHANGED <<store, nextRequestId, accepted, requests, settlements>>

Next ==
  \/ BuyTicket
  \/ RequestDrawRandomness
  \/ FulfillRandomWords
  \/ Pause
  \/ Unpause
  \/ EmergencyWithdraw
  \/ GetPlayerTickets
  \/ GetDrawInfo
  \/ GetDrawWinners
  \/ GetCurrentDrawStatus
  \/ AdvanceTime

Spec == Init /\ [][Next]_vars

\* The same contract with many tickets in play: bob buys a losing pick as
\* the first ticket, alice buys the winning pick up to MaxBulkTickets
\* tickets, the owner requests the draw and the coordinator delivers for
\* the first token.  Here the prize pool need not be a multiple of the
\* number of winning tickets.
BulkBuyTicket ==
  \/ BuyTicketBy({"bob"}, {Purchase(TICKET_PRICE, <<1, 2, 3, 4, 5>>, <<1, 3>>)}, 1)
  \/ BuyTicketBy({"alice"}, {Purchase(TICKET_PRICE, <<5, 4, 3, 2, 1>>, <<2, 1>>)},
                 MaxBulkTickets)

BulkRequestDrawRandomness == RequestDrawRandomnessBy({Owner})

BulkFulfillRandomWords ==
  FulfillRandomWordsBy({}, {1}, { Delivery(<<0, 1, 2, 3, 4, 0, 1>>, {}),
                                  Delivery(<<0, 1, 2, 3, 5, 0, 1>>, {}) })

NextBulk ==
  \/ BulkBuyTicket
  \/ BulkRequestDrawRandomness
  \/ BulkFulfillRandomWords
  \/ AdvanceTime

SpecBulk == Init /\ [][NextBulk]_vars

\* The resolver on its own: no ticket is sold, the owner requests the draw
\* after the window and the coordinator answers the pending request of
\* draw 1 with any five of MainWords followed by any two of StarWords.
ResolveRequestDrawRandomness == RequestDrawRandomnessBy({Owner})

ResolveFulfillRandomWords ==
  /\ draws[1].randomnessRequested
  /\ ~ draws[1].isCompleted
  /\ \E a \in MainWords, b \in MainWords, c \in MainWords, d \in MainWords,
        e \in MainWords, f \in StarWords, g \in StarWords :
       FulfillRandomWordsBy({}, {1}, { Delivery(<<a, b, c, d, e, f, g>>, {}) })

NextResolve ==
  \/ ResolveRequestDrawRandomness
  \/ ResolveFulfillRandomWords
  \/ AdvanceTime

SpecResolve == Init /\ [][NextResolve]_vars

\* ------------------------------------------------------------ the
\* coordinator answering every issued request: the words it holds for a
\* request are fixed by the request (WordsFor) and it delivers them again
\* and again until the delivery takes effect.  The words of the
\* odd-numbered requests are those of the tests; those of the
\* even-numbered requests have two words congruent modulo 50.
WordsFor(requestId) ==
  IF requestId % 2 = 1 THEN <<0, 1, 2, 3, 4, 0, 1>>
  ELSE <<0, 50, 2, 3, 4, 0, 1>>

LiveBuyTicket == BuyTicketBy(Buyers, ValidPurchases, MaxTickets)

LiveRequestDrawRandomness == RequestDrawRandomnessBy({Owner})

LiveFulfillRandomWords ==
  \E requestId \in RequestIds \ {0} :
    /\ requestId < nextRequestId
    /\ FulfillRandomWordsBy({}, {requestId}, { Delivery(WordsFor(requestId), {}) })

NextLive ==
  \/ LiveBuyTicket
  \/ LiveRequestDrawRandomness
  \/ LiveFulfillRandomWords
  \/ AdvanceTime

\* some issued request has a delivery that takes effect: the state
\* predicate that ENABLED <<LiveFulfillRandomWords>>_vars stands for (a
\* delivery changes the state exactly when it settles a draw)
Deliverable ==
  \E requestId \in RequestIds \ {0} :
    LET r == fulfillRandomWords(State, now, Coordinator, requestId,
                                WordsFor(requestId), {})
    IN /\ requestId < nextRequestId
       /\ r.settled
       /\ r.s.currentDrawId <= MaxDrawId

\* time passes, and the coordinator is weakly fair: a delivery that stays
\* able to take effect is eventually made.  The latter is
\* WF_vars(LiveFulfillRandomWords) written out, with Deliverable for the
\* enabling condition.
SpecLive ==
  /\ Init /\ [][NextLive]_vars
  /\ WF_vars(AdvanceTime)
  /\ ([]<>(~ Deliverable) \/ []<><<LiveFulfillRandomWords>>_vars)

\* ------------------------------------------------------------ payees
\* that call back: the owner and the players buy the pick of the tests or
\* a losing pick, the owner pauses, unpauses and requests the draw, and
\* the coordinator delivers the words of the tests for an issued request
\* while the owner answers the house fee, and one payee its prize, with a
\* call into the contract.
CallingBuyTicket ==
  BuyTicketBy({Owner, "alice"},
              { Purchase(TICKET_PRICE, <<1, 2, 3, 4, 5>>, <<1, 2>>),
                Purchase(TICKET_PRICE, <<1, 2, 3, 4, 5>>, <<1, 3>>) }, MaxTickets)

CallingRequestDrawRandomness == RequestDrawRandomnessBy({Owner})

CallingPause ==
  LET r == pause(State, Owner) IN
  /\ Commit(r.s)
  /\ UNCHANGED <<now, nextRequestId, accepted, requests, settlements>>

CallingUnpause ==
  LET r == unpause(State, Owner) IN
  /\ Commit(r.s)
  /\ UNCHANGED <<now, nextRequestId, accepted, requests, settlements>>

CallingFulfillRandomWords ==
  \E requestId \in RequestIds \ {0}, onFee \in Calls, who \in {Owner, "alice"},
     onPrize \in Calls :
    LET r == fulfillRandomWordsCalling(State, now, requestId,
                                       <<0, 1, 2, 3, 4, 0, 1>>, onFee, who,
                                       onPrize, nextRequestId)
        drawId == vrfRequestIdToDraw[requestId]
        bought == { a \in Accounts :
                      Len(r.s.playerTickets[r.s.currentDrawId][a])
                        > Len(playerTickets[r.s.currentDrawId][a]) }
    IN /\ requestId < nextRequestId
       /\ r.s.currentDrawId <= MaxDrawId
       /\ Commit(r.s)
       /\ settlements' = IF r.settled THEN [settlements EXCEPT ![drawId] = @ + 1]
                         ELSE settlements
       /\ nextRequestId' = IF r.s.vrfRequestIdToDraw = vrfRequestIdToDraw
                           THEN nextRequestId ELSE nextRequestId + 1
       /\ requests' = IF r.s.vrfRequestIdToDraw = vrfRequestIdToDraw THEN requests
                      ELSE [requests EXCEPT ![r.s.currentDrawId] = @ + 1]
       /\ accepted' = [d \in DrawIds |->
                         IF d = r.s.currentDrawId
                         THEN accepted[d] + Cardinality(bought) ELSE accepted[d]]
       /\ UNCHANGED now

NextCalling ==
  \/ CallingBuyTicket
  \/ CallingRequestDrawRandomness
  \/ CallingPause
  \/ CallingUnpause
  \/ CallingFulfillRandomWords
  \/ AdvanceTime

SpecCalling == Init /\ [][NextCalling]_vars

\* ------------------------------------------------------------ the
\* validators on their own: the first purchase of the first draw, by
\* alice at the ticket price, with any pick over PickValues and
\* StarPickValues
ValidateBuyTicket ==
  /\ TicketsSold = 0
  /\ \E a \in PickValues, b \in PickValues, c \in PickValues, d \in PickValues,
        e \in PickValues, f \in StarPickValues, g \in StarPickValues :
       BuyTicketBy({"alice"}, { Purchase(TICKET_PRICE, <<a, b, c, d, e>>, <<f, g>>) }, 1)

NextValidate == ValidateBuyTicket

SpecValidate == Init /\ [][NextValidate]_vars


\* ------------------------------------------------------------ claims
\* Definitions used to state the claims.  A call that reverts changes
\* nothing, so a claim about a rejected call is stated on the handler's
\* result in every reachable state, for every offered input.

SumOf(f, S) ==
  LET RECURSIVE Sum(_)
      Sum(T) == IF T = {} THEN 0
                ELSE LET x == CHOOSE y \in T : TRUE IN f[x] + Sum(T \ {x})
  IN Sum(S)

Count(seq, a) == Cardinality({ i \in 1..Len(seq) : seq[i] = a })
NumberSet(seq) == { seq[i] : i \in 1..Len(seq) }

\* the ticket holds exactly the winning numbers of draw d, in any order
FullMatch(tk, d) ==
  /\ NumberSet(tk.mainNumbers) = NumberSet(draws[d].winningMainNumbers)
  /\ NumberSet(tk.luckyStars) = NumberSet(draws[d].winningLuckyStars)

\* the number of tickets of account a in draw d that hold the winning numbers
WinningTickets(d, a) ==
  Cardinality({ i \in 1..Len(playerTickets[d][a]) :
                  FullMatch(playerTickets[d][a][i], d) })

InWindow(t) ==
  /\ draws[currentDrawId].drawStartTime <= t
  /\ t <= draws[currentDrawId].drawEndTime

\* the instants at which the window guards are probed: around the start
\* and the end of the current window, and the current time
ProbeTimes ==
  { draws[currentDrawId].drawStartTime - 1, draws[currentDrawId].drawStartTime,
    draws[currentDrawId].drawEndTime, draws[currentDrawId].drawEndTime + 1, now }

Buy(t, sender, p) ==
  buyTicket(State, t, sender, p.value, p.mainNumbers, p.luckyStars)
Request(t) == requestDrawRandomness(State, t, Owner, nextRequestId)

\* C1: for every draw, totalTickets is the number of buyTicket calls
\* accepted for it and totalPrizePool is TICKET_PRICE * totalTickets,
\* whatever purchases were accepted and rejected.
C1_TicketsAndPool ==
  \A d \in DrawIds :
    /\ draws[d].totalTickets = accepted[d]
    /\ draws[d].totalPrizePool = TICKET_PRICE * draws[d].totalTickets

C1_Witness ==
  \E d \in DrawIds : accepted[d] = 2 /\ Len(draws[d].players) = 2

\* C2: the contract balance plus everything ever transferred out equals
\* TICKET_PRICE times the number of tickets ever accepted.
C2_MoneyConservation ==
  balance + SumOf(received, Accounts) = TICKET_PRICE * SumOf(accepted, DrawIds)

C2_Witness ==
  /\ balance > 0
  /\ received[Owner] > 0
  /\ \E a \in Buyers : received[a] > 0

\* C3: randomnessRequested and isCompleted of a draw are never reset once
\* set, and no draw is settled more than once.
C3_FlagsSetOnce ==
  [][ \A d \in DrawIds :
        /\ draws[d].randomnessRequested => draws'[d].randomnessRequested
        /\ draws[d].isCompleted => draws'[d].isCompleted
        /\ settlements'[d] <= 1 ]_vars

C3_Witness ==
  \E q \in RequestIds \ {0} :
    LET d == vrfRequestIdToDraw[q] IN
    /\ d >= 1
    /\ settlements[d] = 1
    /\ draws[d].isCompleted /\ draws[d].randomnessRequested
    /\ currentDrawId > d

\* C4: a delivery by the coordinator whose token maps to a completed draw
\* does not fail and changes nothing, whatever words it carries.
C4_ReplayIsNoOp ==
  \A q \in RequestIds \ {0}, d \in Deliveries :
    draws[vrfRequestIdToDraw[q]].isCompleted =>
      fulfillRandomWords(State, now, Coordinator, q, d.randomWords, d.refusing)
        = [ err |-> "", s |-> State, settled |-> FALSE ]

C4_Witness ==
  \E q \in RequestIds \ {0} :
    /\ vrfRequestIdToDraw[q] >= 1
    /\ draws[vrfRequestIdToDraw[q]].isCompleted
    /\ settlements[vrfRequestIdToDraw[q]] = 1
    /\ balance > 0

\* C5: the operator's request on the current draw fails with DrawNotActive
\* up to drawEndTime, succeeds after it while none has succeeded for the
\* draw, and fails with RandomnessAlreadyRequested once one has; no draw
\* has more than one successful request.
C5_RequestOncePerDraw ==
  /\ now <= draws[currentDrawId].drawEndTime
       => Request(now).err = "DrawNotActive" /\ Request(now).s = State
  /\ (now > draws[currentDrawId].drawEndTime /\ requests[currentDrawId] = 0)
       => /\ Request(now).err = ""
          /\ Request(now).s.draws[currentDrawId].randomnessRequested
  /\ requests[currentDrawId] >= 1
       => Request(now).err = "RandomnessAlreadyRequested" /\ Request(now).s = State
  /\ \A d \in DrawIds : requests[d] <= 1

C5_Witness ==
  /\ currentDrawId = 2
  /\ requests[1] = 1
  /\ requests[2] = 1
  /\ Request(now).err = "RandomnessAlreadyRequested"

\* C6: buyTicket is accepted only at a time within the window of the
\* current draw; at any other time it fails with DrawNotActive and leaves
\* tickets, pool and balance as they were.
C6_SalesOnlyInWindow ==
  \A t \in ProbeTimes, sender \in Buyers, p \in Purchases :
    /\ Buy(t, sender, p).err = "" => InWindow(t)
    /\ ~ InWindow(t) => /\ Buy(t, sender, p).err = "DrawNotActive"
                        /\ Buy(t, sender, p).s = State

C6_Witness ==
  /\ now > draws[currentDrawId].drawEndTime
  /\ accepted[currentDrawId] >= 1
  /\ \A sender \in Buyers, p \in ValidPurchases :
       Buy(now, sender, p).err = "DrawNotActive"

\* C7: at no instant can both a purchase and a resolution request succeed:
\* at drawEndTime a valid purchase is accepted (unless paused) and the
\* request is rejected; after drawEndTime every purchase is rejected and
\* the first request is accepted.
C7_NoCommonInstant ==
  LET end == draws[currentDrawId].drawEndTime IN
  /\ \A t \in ProbeTimes, sender \in Buyers, p \in Purchases :
       ~ (Buy(t, sender, p).err = "" /\ Request(t).err = "")
  /\ Request(end).err = "DrawNotActive"
  /\ ~ paused => \A sender \in Buyers, p \in ValidPurchases :
                   Buy(end, sender, p).err = ""
  /\ \A t \in { u \in ProbeTimes : u > end } :
       /\ \A sender \in Buyers, p \in Purchases :
            Buy(t, sender, p).err = "DrawNotActive"
       /\ requests[currentDrawId] = 0 => Request(t).err = ""

C7_Witness ==
  /\ now = draws[currentDrawId].drawEndTime
  /\ \E a \in Buyers :
       /\ playerTickets[currentDrawId][a] # <<>>
       /\ playerTickets[currentDrawId][a][1].timestamp = now
  /\ Request(now).err = "DrawNotActive"

\* C8: a settlement of a draw with pool P and k >= 1 winning tickets sends
\* floor(P / 100) to the operator and floor((P - fee) / k) per winning
\* ticket, and the remainder (P - fee) mod k stays in the balance; for
\* P = 0.02 ether and k = 1 these are 0.0002 and 0.0198 ether.
C8_SettlementAmounts ==
  [][ \A d \in DrawIds :
        LET P == draws[d].totalPrizePool
            k == SumOf([a \in Accounts |-> WinningTickets(d, a)'], Accounts)
            fee == P \div 100
            prize == (P - fee) \div k
        IN (settlements'[d] = settlements[d] + 1 /\ k >= 1) =>
             /\ \A a \in Accounts :
                  received'[a] - received[a] =
                    (IF a = Owner THEN fee ELSE 0) + prize * WinningTickets(d, a)'
             /\ balance - balance' = P - ((P - fee) % k)
             /\ (P = 2 * TICKET_PRICE /\ k = 1) => fee = 200000 /\ prize = 19800000
    ]_vars

\* eight tickets, seven of them winning: 79200000 = 7 * 11314285 + 5
C8_Witness ==
  /\ settlements[1] = 1
  /\ draws[1].totalPrizePool = 8 * TICKET_PRICE
  /\ Count(draws[1].winners, "alice") = 7
  /\ received[Owner] = 800000
  /\ received["alice"] = 7 * 11314285
  /\ balance = 5

\* C9: a settlement of a draw without a winning ticket (also one without
\* any ticket) makes no transfer, leaves the balance as it was, completes
\* the draw with an empty winners list and starts the next draw.
C9_ZeroWinnerSettlement ==
  [][ \A d \in DrawIds :
        ( /\ settlements'[d] = settlements[d] + 1
          /\ \A a \in Accounts : WinningTickets(d, a)' = 0 ) =>
            /\ received' = received
            /\ balance' = balance
            /\ draws'[d].isCompleted
            /\ draws'[d].winners = <<>>
            /\ currentDrawId' = currentDrawId + 1
            /\ ~ draws'[currentDrawId'].isCompleted
            /\ ~ draws'[currentDrawId'].randomnessRequested
            /\ draws'[currentDrawId'].totalTickets = 0
            /\ draws'[currentDrawId'].drawStartTime = now
    ]_vars

C9_Witness ==
  \E d \in DrawIds :
    /\ d >= 1
    /\ settlements[d] = 1
    /\ draws[d].winners = <<>>
    /\ draws[d].totalTickets >= 1
    /\ balance >= draws[d].totalPrizePool
    /\ \A a \in Accounts : received[a] = 0
    /\ currentDrawId > d

\* C10: in a settled draw an account is listed as a winner once for each
\* of its tickets whose five main numbers and two stars are, as sets, the
\* winning ones, and for no other ticket.
C10_WinnerIffFullMatch ==
  \A d \in DrawIds :
    settlements[d] >= 1 =>
      \A a \in Accounts : Count(draws[d].winners, a) = WinningTickets(d, a)

C10_Witness ==
  \E d \in DrawIds, a \in Buyers, b \in Buyers :
    /\ settlements[d] = 1
    /\ draws[d].winners = <<a>>
    /\ playerTickets[d][a][1].mainNumbers # draws[d].winningMainNumbers
    /\ playerTickets[d][b] # <<>>
    /\ b # a
    /\ NumberSet(playerTickets[d][b][1].mainNumbers)
         = NumberSet(draws[d].winningMainNumbers)
    /\ ~ FullMatch(playerTickets[d][b][1], d)

\* C11: the winners list of a settled draw has one entry per winning
\* ticket: its length is the number of winning tickets, an account with n
\* winning tickets is listed n times and is paid n times the prize per
\* winning ticket.
C11_EntryPerWinningTicket ==
  [][ \A d \in DrawIds :
        LET P == draws[d].totalPrizePool
            k == SumOf([a \in Accounts |-> WinningTickets(d, a)'], Accounts)
            prizePerWinner == IF k = 0 THEN 0 ELSE (P - P \div 100) \div k
        IN settlements'[d] = settlements[d] + 1 =>
             /\ Len(draws'[d].winners) = k
             /\ \A a \in Accounts :
                  Count(draws'[d].winners, a) = WinningTickets(d, a)'
             /\ \A a \in Buyers :
                  received'[a] - received[a] =
                    WinningTickets(d, a)' * prizePerWinner
    ]_vars

\* four tickets, three of them alice's and winning: 39600000 / 3 each
C11_Witness ==
  /\ settlements[1] = 1
  /\ draws[1].totalTickets = 4
  /\ draws[1].winners = <<"alice", "alice", "alice">>
  /\ received["alice"] = 3 * 13200000
  /\ received["bob"] = 0

\* C12: right after draw d (d >= 1, the draws the contract creates) is
\* settled, currentDrawId is d + 1 and draw d + 1 is fresh: pool 0, no
\* tickets, no participants, not completed, not requested, a window of
\* seven days starting at the settlement time.
C12_NextDrawFollowsSettled ==
  [][ \A d \in DrawIds \ {0} :
        settlements'[d] = settlements[d] + 1 =>
          /\ currentDrawId' = d + 1
          /\ draws'[d + 1].totalPrizePool = 0
          /\ draws'[d + 1].totalTickets = 0
          /\ draws'[d + 1].players = <<>>
          /\ ~ draws'[d + 1].isCompleted
          /\ ~ draws'[d + 1].randomnessRequested
          /\ draws'[d + 1].drawStartTime = now
          /\ draws'[d + 1].drawEndTime = now + SevenDays
    ]_vars

\* the members of a set of numbers in ascending order
RECURSIVE Ascending(_)
Ascending(S) ==
  IF S = {} THEN <<>>
  ELSE LET m == CHOOSE x \in S : \A y \in S : x <= y
       IN <<m>> \o Ascending(S \ {m})

\* the requests that await their delivery
Pending(q) ==
  /\ vrfRequestIdToDraw[q] >= 1
  /\ draws[vrfRequestIdToDraw[q]].randomnessRequested
  /\ ~ draws[vrfRequestIdToDraw[q]].isCompleted

Deliver(q, w) == fulfillRandomWords(State, now, Coordinator, q, w, {})

\* C13: whenever a delivery of 7 words produces a winning pick, the pick
\* is determined by the words alone (the residues mod 50 of the first five
\* and mod 12 of the last two, plus 1, in ascending order, in whatever
\* state the delivery arrives) and consists of 5 distinct main numbers in
\* 1..50 and 2 distinct stars in 1..12, ascending.
C13_PickFromWordsOnly ==
  \A q \in RequestIds \ {0} :
    Pending(q) =>
      \A a \in MainWords, b \in MainWords, c \in MainWords, d \in MainWords,
         e \in MainWords, f \in StarWords, g \in StarWords :
        LET w == <<a, b, c, d, e, f, g>>
            r == Deliver(q, w)
            id == vrfRequestIdToDraw[q]
            main == r.s.draws[id].winningMainNumbers
            stars == r.s.draws[id].winningLuckyStars
        IN r.settled =>
             /\ main = Ascending({ (w[i] % 50) + 1 : i \in 1..5 })
             /\ stars = Ascending({ (w[i] % 12) + 1 : i \in 6..7 })
             /\ Len(main) = 5 /\ Len(stars) = 2
             /\ \A i \in 1..5 : main[i] >= 1 /\ main[i] <= 50
             /\ \A i \in 1..2 : stars[i] >= 1 /\ stars[i] <= 12
             /\ \A i \in 1..4 : main[i] < main[i + 1]
             /\ stars[1] < stars[2]

\* a draw resolved from words above the modulus (99 gives 50) and at its
\* edge (11 gives 12)
C13_Witness ==
  /\ settlements[1] = 1
  /\ draws[1].winningMainNumbers = <<1, 2, 3, 5, 50>>
  /\ draws[1].winningLuckyStars = <<1, 12>>

\* C14: for every sequence of 7 words the two uniqueness loops of the
\* delivery terminate, also when two of the first five words are
\* congruent mod 50 or the last two are congruent mod 12.
C14_LoopsTerminate ==
  \A q \in RequestIds \ {0} :
    Pending(q) =>
      \A a \in MainWords, b \in MainWords, c \in MainWords, d \in MainWords,
         e \in MainWords, f \in StarWords, g \in StarWords :
        Deliver(q, <<a, b, c, d, e, f, g>>).err # "OutOfGas"

\* the callers that are not the operator
Strangers == (Accounts \cup {Coordinator}) \ {Owner}

\* C15: once a draw has been settled and the operator has paused the
\* system, emergencyWithdraw by the operator succeeds and sends the whole
\* contract balance to the operator.
C15_WithdrawAfterSettlement ==
  (paused /\ \E d \in DrawIds \ {0} : settlements[d] >= 1) =>
    LET r == emergencyWithdraw(State, Owner, {}) IN
    /\ r.err = ""
    /\ r.s.balance = 0
    /\ r.s.received[Owner] = received[Owner] + balance

PausedBlocksSales ==
  paused =>
    \A t \in ProbeTimes, sender \in Buyers, p \in Purchases :
      /\ Buy(t, sender, p).err # ""
      /\ Buy(t, sender, p).s = State
      /\ InWindow(t) => Buy(t, sender, p).err = "Paused"

\* pause and unpause are refused to everyone but the operator, and the
\* operator's call flips the flag
OnlyOperatorPauses ==
  /\ \A sender \in Strangers :
       /\ pause(State, sender) = Revert(State, "Unauthorized")
       /\ unpause(State, sender) = Revert(State, "Unauthorized")
  /\ ~ paused => pause(State, Owner) = Ok([State EXCEPT !.paused = TRUE])
  /\ paused => unpause(State, Owner) = Ok([State EXCEPT !.paused = FALSE])

\* C17: while the system is paused every buyTicket is rejected and records
\* nothing; once the operator has unpaused, a purchase within the window,
\* at the ticket price and with a valid pick is accepted again; only the
\* operator can pause or unpause.
C17_PauseBlocksSales ==
  /\ PausedBlocksSales
  /\ OnlyOperatorPauses
  /\ (paused /\ InWindow(now)) =>
       \A sender \in Buyers, p \in ValidPurchases :
         buyTicket(unpause(State, Owner).s, now, sender, p.value,
                   p.mainNumbers, p.luckyStars).err = ""
  /\ (~ paused /\ InWindow(now)) =>
       \A sender \in Buyers, p \in ValidPurchases : Buy(now, sender, p).err = ""

\* paused inside the window of a draw that sold a ticket at this very time
C17_Witness ==
  /\ paused
  /\ InWindow(now)
  /\ \E a \in Buyers :
       /\ playerTickets[currentDrawId][a] # <<>>
       /\ playerTickets[currentDrawId][a][1].timestamp = now
  /\ \A sender \in Buyers, p \in ValidPurchases :
       Buy(now, sender, p).err = "Paused"

\* a sequence of exactly n pairwise distinct integers in [1, max]
WellFormed(seq, n, max) ==
  /\ Len(seq) = n
  /\ \A i \in 1..Len(seq) : seq[i] \in 1..max
  /\ \A i \in 1..Len(seq), j \in 1..Len(seq) : i # j => seq[i] # seq[j]

\* arrays of a length the contract's uint8[5] / uint8[2] cannot hold
WrongLengthMain == { <<1, 2, 3, 4>>, <<1, 2, 3, 4, 5, 6>>, <<>> }
WrongLengthStars == { <<1>>, <<1, 2, 3>>, <<>> }

\* C18: a pick passes validation if and only if its main numbers are 5
\* pairwise distinct integers in [1,50] and its lucky stars 2 distinct
\* integers in [1,12]; a purchase with a bad main pick fails with
\* InvalidMainNumbers, one with a good main pick and a bad star pick with
\* InvalidLuckyStars, a rejected purchase records nothing (every pick is
\* offered as the first purchase of the draw); every recorded ticket is
\* such a pick; the off-chain InputValidator accepts exactly the picks the
\* contract accepts, and rejects every array of another length.
C18_ValidationAcceptsWellFormed ==
  /\ \A m \in WrongLengthMain : InputValidator_validateMainNumbers(m) # ""
  /\ \A st \in WrongLengthStars : InputValidator_validateLuckyStars(st) # ""
  /\ \A f \in StarPickValues, g \in StarPickValues :
       LET st == <<f, g>> IN
       /\ _validateLuckyStars(st) <=> WellFormed(st, 2, 12)
       /\ (InputValidator_validateLuckyStars(st) = "") <=> _validateLuckyStars(st)
  /\ \A a \in PickValues, b \in PickValues, c \in PickValues, d \in PickValues,
        e \in PickValues :
       LET m == <<a, b, c, d, e>> IN
       /\ _validateMainNumbers(m) <=> WellFormed(m, 5, 50)
       /\ (InputValidator_validateMainNumbers(m) = "") <=> _validateMainNumbers(m)
       /\ (TicketsSold = 0 /\ InWindow(now) /\ ~ paused) =>
            \A f \in StarPickValues, g \in StarPickValues :
              LET st == <<f, g>>
                  r == Buy(now, "alice", Purchase(TICKET_PRICE, m, st))
              IN /\ r.err = IF ~ WellFormed(m, 5, 50) THEN "InvalidMainNumbers"
                            ELSE IF ~ WellFormed(st, 2, 12) THEN "InvalidLuckyStars"
                            ELSE ""
                 /\ r.err # "" => r.s = State
  /\ \A d \in DrawIds, p \in Accounts :
       \A k \in 1..Len(playerTickets[d][p]) :
         /\ WellFormed(playerTickets[d][p][k].mainNumbers, 5, 50)
         /\ WellFormed(playerTickets[d][p][k].luckyStars, 2, 12)

\* a ticket with both ends of both ranges, out of order, was recorded,
\* and picks one past either end are refused
C18_Witness ==
  /\ accepted[1] = 1
  /\ Len(playerTickets[1]["alice"]) = 1
  /\ playerTickets[1]["alice"][1].mainNumbers = <<50, 3, 49, 2, 1>>
  /\ playerTickets[1]["alice"][1].luckyStars = <<12, 1>>
  /\ Buy(now, "alice", Purchase(TICKET_PRICE, <<51, 3, 49, 2, 1>>, <<12, 1>>)).err
       = "InvalidMainNumbers"
  /\ Buy(now, "alice", Purchase(TICKET_PRICE, <<50, 3, 49, 2, 1>>, <<13, 1>>)).err
       = "InvalidLuckyStars"
  /\ Buy(now, "alice", Purchase(TICKET_PRICE, <<50, 3, 49, 2, 50>>, <<12, 1>>)).err
       = "InvalidMainNumbers"

\* the purchases that do not pay exactly the ticket price: too little and
\* too much with a valid pick, and nothing with an invalid pick
WrongPayments ==
  { p \in Purchases : p.value # TICKET_PRICE }
    \cup { Purchase(0, <<1, 1, 1, 1, 1>>, <<0, 0>>) }

\* C19 as claimed: a buyTicket that does not pay exactly TICKET_PRICE fails
\* with InsufficientPayment and changes nothing.
C19_WrongPaymentIsInsufficient ==
  \A sender \in Buyers, p \in WrongPayments :
    Buy(now, sender, p) = Revert(State, "InsufficientPayment")

\* C19 as amended: a buyTicket that does not pay exactly TICKET_PRICE is
\* rejected and changes nothing; the error is InsufficientPayment when the
\* call is made within the window while the system is not paused,
\* DrawNotActive outside the window, and the pause error within the
\* window while paused.
C19_WrongPaymentRejected ==
  \A t \in ProbeTimes, sender \in Buyers, p \in WrongPayments :
    LET r == Buy(t, sender, p) IN
    /\ r.s = State
    /\ r.err = IF ~ InWindow(t) THEN "DrawNotActive"
               ELSE IF paused THEN "Paused"
               ELSE "InsufficientPayment"

C19_Witness ==
  /\ ~ paused
  /\ InWindow(now)
  /\ accepted[currentDrawId] >= 1
  /\ \A sender \in Buyers, p \in WrongPayments :
       Buy(now, sender, p).err = "InsufficientPayment"
  /\ \E sender \in Buyers, p \in ValidPurchases : Buy(now, sender, p).err = ""

\* C20: requestDrawRandomness by anyone but the operator is rejected and
\* changes nothing (randomnessRequested stays false, no token is recorded),
\* before and after the window has closed.
C20_OnlyOperatorRequests ==
  \A sender \in Strangers, t \in ProbeTimes :
    requestDrawRandomness(State, t, sender, nextRequestId)
      = Revert(State, "Unauthorized")

\* the window has closed and the operator's request would be accepted
C20_Witness ==
  /\ now > draws[currentDrawId].drawEndTime
  /\ accepted[currentDrawId] >= 1
  /\ ~ draws[currentDrawId].randomnessRequested
  /\ Request(now).err = ""
  /\ requestDrawRandomness(State, now, "alice", nextRequestId).err = "Unauthorized"

\* C21: a randomness delivery by any identity other than the coordinator
\* is rejected and changes nothing: winning numbers, winners, isCompleted
\* and currentDrawId (and everything else) stay as they were.
C21_OnlyCoordinatorDelivers ==
  \A sender \in Accounts, q \in RequestIds, d \in Deliveries :
    LET r == fulfillRandomWords(State, now, sender, q, d.randomWords, d.refusing)
    IN /\ r.err = "OnlyCoordinatorCanFulfill"
       /\ r.s = State
       /\ ~ r.settled

\* a request is pending whose delivery by the coordinator would settle the
\* draw with a winner, while the same delivery by the operator is refused
C21_Witness ==
  /\ Pending(1)
  /\ draws[vrfRequestIdToDraw[1]].totalTickets >= 1
  /\ Deliver(1, <<0, 1, 2, 3, 4, 0, 1>>).settled
  /\ Deliver(1, <<0, 1, 2, 3, 4, 0, 1>>).s.draws[vrfRequestIdToDraw[1]].winners # <<>>
  /\ fulfillRandomWords(State, now, Owner, 1, <<0, 1, 2, 3, 4, 0, 1>>, {}).err
       = "OnlyCoordinatorCanFulfill"

\* C22: a delivery by the coordinator whose word count is not exactly 7
\* fails with MalformedRandomness and neither resolves nor settles the
\* draw.
C22_MalformedRandomness ==
  \A q \in RequestIds \ {0}, d \in Deliveries :
    (Pending(q) /\ Len(d.randomWords) # 7) =>
      LET r == fulfillRandomWords(State, now, Coordinator, q, d.randomWords,
                                  d.refusing)
      IN /\ r.err = "MalformedRandomness"
         /\ ~ r.settled
         /\ r.s = State

\* C23: getDrawInfo, getPlayerTickets and getDrawWinners fail with
\* DrawNotFound for every identifier greater than currentDrawId, succeed
\* for every identifier in 1..currentDrawId with the stored values, and
\* never change state.
C23_QueriesByDrawId ==
  \A drawId \in QueryIds, player \in Accounts :
    LET t == getPlayerTickets(State, drawId, player)
        i == getDrawInfo(State, drawId)
        w == getDrawWinners(State, drawId)
    IN /\ t.s = State /\ i.s = State /\ w.s = State
       /\ drawId > currentDrawId =>
            /\ t.err = "DrawNotFound"
            /\ i.err = "DrawNotFound"
            /\ w.err = "DrawNotFound"
       /\ (drawId >= 1 /\ drawId <= currentDrawId) =>
            /\ t.err = "" /\ t.value = playerTickets[drawId][player]
            /\ w.err = "" /\ w.value = draws[drawId].winners
            /\ i.err = ""
            /\ i.value.totalPrizePool = draws[drawId].totalPrizePool
            /\ i.value.totalTickets = draws[drawId].totalTickets
            /\ i.value.winningMainNumbers = draws[drawId].winningMainNumbers
            /\ i.value.winningLuckyStars = draws[drawId].winningLuckyStars
            /\ i.value.isCompleted = draws[drawId].isCompleted
            /\ i.value.drawStartTime = draws[drawId].drawStartTime
            /\ i.value.drawEndTime = draws[drawId].drawEndTime

\* draw 1 is settled with a winner and draw 2 is open: the queries answer
\* for 1 and 2 and fail for 3
C23_Witness ==
  /\ currentDrawId = 2
  /\ settlements[1] = 1
  /\ getDrawWinners(State, 1).value # <<>>
  /\ getPlayerTickets(State, 1, "alice").value # <<>>
  /\ getDrawInfo(State, 1).value.isCompleted
  /\ getDrawInfo(State, 2).err = ""
  /\ getDrawInfo(State, 3).err = "DrawNotFound"

\* C25: getCurrentDrawStatus reports isActive true exactly when buyTicket
\* passes the window guard (drawStartTime <= now <= drawEndTime of the
\* current draw), timeLeft = drawEndTime - now when active and 0
\* otherwise, and the current draw's identifier, pool and ticket count;
\* it changes nothing.
C25_StatusMatchesWindow ==
  \A t \in ProbeTimes :
    LET r == getCurrentDrawStatus(State, t)
        draw == draws[currentDrawId]
    IN /\ r.err = "" /\ r.s = State
       /\ r.value.isActive <=> onlyActiveDraw(State, t)
       /\ r.value.isActive <=> (draw.drawStartTime <= t /\ t <= draw.drawEndTime)
       /\ r.value.isActive <=>
            \A sender \in Buyers, p \in Purchases :
              Buy(t, sender, p).err # "DrawNotActive"
       /\ r.value.timeLeft = IF r.value.isActive THEN draw.drawEndTime - t ELSE 0
       /\ r.value.drawId = currentDrawId
       /\ r.value.totalPrizePool = draw.totalPrizePool
       /\ r.value.totalTickets = draw.totalTickets

\* the last second of a window in which two tickets were sold: the draw
\* is active with no time left
C25_Witness ==
  /\ now = draws[currentDrawId].drawEndTime
  /\ draws[currentDrawId].totalTickets = 2
  /\ getCurrentDrawStatus(State, now).value.isActive
  /\ getCurrentDrawStatus(State, now).value.timeLeft = 0
  /\ getCurrentDrawStatus(State, now).value.totalPrizePool = 2 * TICKET_PRICE
  /\ ~ getCurrentDrawStatus(State, now + 1).value.isActive

\* the accounts a settlement answering request q with words w pays when
\* nobody refuses: the operator and the winners, if there is a winner
Payees(q, w) ==
  LET winners == Deliver(q, w).s.draws[vrfRequestIdToDraw[q]].winners IN
  IF winners = <<>> THEN {} ELSE {Owner} \cup NumberSet(winners)

\* the words of the offered deliveries that resolve a draw
ResolvingWords ==
  { d.randomWords : d \in { e \in Deliveries : Len(e.randomWords) = 7 } }

\* C24: if the house-fee transfer or a winner transfer fails during
\* settlement, the delivery fails with TransferFailed and is
\* all-or-nothing: balances, amounts received, the draw and currentDrawId
\* are as before the call, so no payee keeps anything and no draw is
\* opened; when no payee refuses the delivery is the one made with nobody
\* refusing.
C24_TransferFailureAborts ==
  \A q \in RequestIds \ {0}, w \in ResolvingWords, refusing \in SUBSET Accounts :
    (Pending(q) /\ Deliver(q, w).settled) =>
      LET r == fulfillRandomWords(State, now, Coordinator, q, w, refusing) IN
      /\ (Payees(q, w) \cap refusing # {}) =>
           /\ r.err = "TransferFailed"
           /\ ~ r.settled
           /\ r.s = State
      /\ (Payees(q, w) \cap refusing = {}) => r = Deliver(q, w)

\* alice and bob both hold the winning pick of a pending draw and bob, the
\* last to be paid, refuses: the fee and alice's prize were already sent
\* when the delivery fails
C24_Witness ==
  /\ Pending(1)
  /\ Deliver(1, <<0, 1, 2, 3, 4, 0, 1>>).s.draws[vrfRequestIdToDraw[1]].winners
       = <<"alice", "bob">>
  /\ fulfillRandomWords(State, now, Coordinator, 1, <<0, 1, 2, 3, 4, 0, 1>>,
                        {"bob"}).err = "TransferFailed"
  /\ fulfillRandomWords(State, now, Coordinator, 1, <<0, 1, 2, 3, 4, 0, 1>>,
                        {"owner"}).err = "TransferFailed"

\* C26: in every reachable state a draw that is completed has
\* randomnessRequested true: no delivery completes a draw for which
\* resolution was never requested.
C26_CompletedWasRequested ==
  \A d \in DrawIds : draws[d].isCompleted => draws[d].randomnessRequested

\* C27: once resolution has been requested for a draw and the coordinator
\* keeps delivering the 7 words of its request, the draw is eventually
\* completed and the next draw opened, whatever the words are.
C27_RequestedIsCompleted ==
  \A d \in DrawIds \ {0} :
    draws[d].randomnessRequested
      ~> (draws[d].isCompleted /\ currentDrawId > d)

C29_ParticipantsOnce ==
  \A d \in DrawIds :
    LET players == draws[d].players IN
    /\ \A i \in 1..Len(players), j \in 1..Len(players) :
         i # j => players[i] # players[j]
    /\ NumberSet(players) = { a \in Accounts : draws[d].ticketCounts[a] > 0 }
    /\ SumOf(draws[d].ticketCounts, NumberSet(players)) = draws[d].totalTickets
    /\ \A a \in Accounts : draws[d].ticketCounts[a] = Len(playerTickets[d][a])

\* bob bought one ticket and alice seven in the same draw
C29_Witness ==
  /\ draws[1].players = <<"bob", "alice">>
  /\ draws[1].ticketCounts["bob"] = 1
  /\ draws[1].ticketCounts["alice"] = 7
  /\ draws[1].totalTickets = 8

\* the tickets recorded in this step: per draw and account, the growth of
\* the ticket list
Added(d, a) == Len(playerTickets'[d][a]) - Len(playerTickets[d][a])

\* C30: a recorded ticket is never changed, removed or moved: in every
\* step every ticket list keeps its tickets in place; at most one ticket
\* is added, by an accepted buyTicket, to the list of its buyer in the
\* draw that was current; and once a draw is completed its tickets, ticket
\* count, participants, winning numbers and winners never change again.
C30_TicketsAreKept ==
  [][ /\ \A d \in DrawIds, a \in Accounts :
           /\ Len(playerTickets'[d][a]) >= Len(playerTickets[d][a])
           /\ SubSeq(playerTickets'[d][a], 1, Len(playerTickets[d][a]))
                = playerTickets[d][a]
           /\ Added(d, a) \in {0, 1}
           /\ Added(d, a) = 1 =>
                /\ d = currentDrawId
                /\ accepted'[d] = accepted[d] + 1
                /\ playerTickets'[d][a][Len(playerTickets'[d][a])].player = a
                /\ \A e \in DrawIds, b \in Accounts :
                     <<e, b>> # <<d, a>> => playerTickets'[e][b] = playerTickets[e][b]
                /\ \A e \in DrawIds \ {d} : draws'[e] = draws[e]
      /\ (\E d \in DrawIds : accepted'[d] # accepted[d]) =>
           \E a \in Accounts : Added(currentDrawId, a) = 1
      /\ \A d \in DrawIds :
           draws[d].isCompleted =>
             /\ playerTickets'[d] = playerTickets[d]
             /\ draws'[d].totalTickets = draws[d].totalTickets
             /\ draws'[d].players = draws[d].players
             /\ draws'[d].ticketCounts = draws[d].ticketCounts
             /\ draws'[d].winningMainNumbers = draws[d].winningMainNumbers
             /\ draws'[d].winningLuckyStars = draws[d].winningLuckyStars
             /\ draws'[d].winners = draws[d].winners
             /\ draws'[d].isCompleted ]_vars

\* draw 1 was settled with alice's ticket in it, and a ticket was bought
\* in draw 2 afterwards
C30_Witness ==
  /\ settlements[1] = 1
  /\ draws[1].isCompleted
  /\ Len(playerTickets[1]["alice"]) = 1
  /\ draws[1].winners = <<"alice">>
  /\ currentDrawId = 2
  /\ Len(playerTickets[2]["bob"]) = 1

\* C31 as claimed: a draw's recorded pool never decreases before its
\* settlement, and a settlement with at least one winner leaves the
\* draw's recorded pool at 0.
C31_PoolZeroedAtSettlement ==
  [][ \A d \in DrawIds :
        /\ ~ draws[d].isCompleted /\ settlements'[d] = settlements[d] =>
             draws'[d].totalPrizePool >= draws[d].totalPrizePool
        /\ (settlements'[d] = settlements[d] + 1 /\ draws'[d].winners # <<>>) =>
             draws'[d].totalPrizePool = 0
    ]_vars

\* C31 as amended: a draw's recorded pool never decreases, neither before
\* nor at nor after its settlement; a settlement with at least one winner
\* pays the fee and the prizes out of the contract balance, once and not
\* more than the pool, and leaves the recorded pool at the value it had.
C31_PoolKeptAtSettlement ==
  [][ \A d \in DrawIds :
        /\ draws'[d].totalPrizePool >= draws[d].totalPrizePool
        /\ draws[d].isCompleted =>
             draws'[d].totalPrizePool = draws[d].totalPrizePool
        /\ settlements'[d] <= 1
        /\ (settlements'[d] = settlements[d] + 1 /\ draws'[d].winners # <<>>) =>
             LET P == draws[d].totalPrizePool
                 k == Len(draws'[d].winners)
                 fee == HouseFee(P)
             IN /\ draws'[d].totalPrizePool = P
                /\ P > 0
                /\ balance - balance' = fee + k * ((P - fee) \div k)
                /\ balance - balance' <= P
    ]_vars

\* draw 1 was settled with a winner and paid out in full, and still
\* records the pool of its two tickets
C31_Witness ==
  /\ settlements[1] = 1
  /\ draws[1].winners = <<"alice">>
  /\ draws[1].totalPrizePool = 2 * TICKET_PRICE
  /\ getDrawInfo(State, 1).value.totalPrizePool = 2 * TICKET_PRICE
  /\ balance = 0

\* what a settlement of draw d owes account a: the house fee to the owner
\* when the draw has a winner, and one share of the rest per winning ticket
Entitlement(d, a) ==
  LET pool == draws[d].totalPrizePool
      k == Len(draws'[d].winners)
      mine == Cardinality({ i \in 1..k : draws'[d].winners[i] = a })
  IN IF k = 0 THEN 0
     ELSE (IF a = Owner THEN HouseFee(pool) ELSE 0)
          + mine * ((pool - HouseFee(pool)) \div k)

\* C32: a settlement runs to completion without interference: while it
\* transfers funds no call back by a payee takes effect (the pause flag is
\* as before, no ticket is recorded, no request is issued) and every
\* account receives exactly what the settlement owes it.
C32_NoCallTakesEffectDuringSettlement ==
  [][ \A d \in DrawIds :
        settlements'[d] = settlements[d] + 1 =>
          /\ paused' = paused
          /\ accepted' = accepted
          /\ requests' = requests
          /\ \A a \in Accounts :
               received'[a] - received[a] = Entitlement(d, a) ]_vars

\* C32, the payout alone: no settlement pays an account more than it owes
C32_NoMoreThanEntitlement ==
  [][ \A d \in DrawIds :
        settlements'[d] = settlements[d] + 1 =>
          \A a \in Accounts :
            received'[a] - received[a] <= Entitlement(d, a) ]_vars

\* the settlement of request q when the owner answers the house fee with
\* onFee and payee who answers its prize with onPrize
Calling(q, onFee, who, onPrize) ==
  fulfillRandomWordsCalling(State, now, q, <<0, 1, 2, 3, 4, 0, 1>>, onFee, who,
                            onPrize, nextRequestId)

\* C33, between operations: the current draw is not completed, so a
\* request is never rejected with DrawAlreadyCompleted and
\* emergencyWithdraw is rejected whenever it is called.
C33_CurrentDrawOpenBetweenOperations ==
  /\ ~ draws[currentDrawId].isCompleted
  /\ \A t \in ProbeTimes : Request(t).err # "DrawAlreadyCompleted"
  /\ emergencyWithdraw(State, Owner, {}).err # ""

\* C33: the current draw is not completed between operations, and hence
\* the completed-draw guard of emergencyWithdraw is evaluated only on a
\* draw that is not completed: wherever the owner calls it from, a
\* settlement under way included, the guard rejects the call and the
\* settlement ends as it would have ended without the call.
C33_GuardsSeeOpenDraw ==
  /\ C33_CurrentDrawOpenBetweenOperations
  /\ \A q \in RequestIds \ {0}, onFee \in Calls \ {"emergencyWithdraw"} :
       (q < nextRequestId /\ Pending(q)) =>
         /\ Calling(q, "emergencyWithdraw", Owner, "accept")
              = Calling(q, "accept", Owner, "accept")
         /\ Calling(q, onFee, Owner, "emergencyWithdraw")
              = Calling(q, onFee, Owner, "accept")

\* C34: a delivery by the coordinator for a request id that no successful
\* requestDrawRandomness issued changes no state: in every reachable state
\* the storage after such a delivery is the storage before it (no draw is
\* completed, nothing is transferred, currentDrawId stays).
C34_UnissuedDeliveryChangesNothing ==
  \A q \in RequestIds \ {0} :
    q >= nextRequestId =>
      LET r == Deliver(q, <<0, 1, 2, 3, 4, 0, 1>>) IN
      /\ ~ r.settled
      /\ r.s = State

\* C35: currentDrawId never decreases and moves, by exactly 1, only in a
\* step that settles the current draw itself; after every step the draws
\* 1..currentDrawId-1 are all completed, and a ticket is only ever
\* accepted for the current draw.
C35_CurrentDrawIdFollowsSettlement ==
  [][ /\ currentDrawId >= 1
      /\ currentDrawId' >= currentDrawId
      /\ currentDrawId' # currentDrawId =>
           /\ currentDrawId' = currentDrawId + 1
           /\ settlements'[currentDrawId] = settlements[currentDrawId] + 1
      /\ \A d \in 1..(currentDrawId' - 1) : draws'[d].isCompleted
      /\ \A d \in DrawIds : accepted'[d] # accepted[d] => d = currentDrawId
    ]_vars

\* C36: time never goes back, and from the request for a draw onward the
\* draw's totalTickets, totalPrizePool, participants and tickets are
\* fixed: no step changes them, and while the requested draw is current
\* every purchase at the current or a later time is rejected with
\* DrawNotActive.
C36_NoTicketAfterRequest ==
  [][ /\ now' >= now
      /\ \A d \in DrawIds \ {0} :
           draws[d].randomnessRequested =>
             /\ draws'[d].randomnessRequested
             /\ draws'[d].totalTickets = draws[d].totalTickets
             /\ draws'[d].totalPrizePool = draws[d].totalPrizePool
             /\ draws'[d].players = draws[d].players
             /\ playerTickets'[d] = playerTickets[d]
             /\ accepted'[d] = accepted[d]
      /\ draws[currentDrawId].randomnessRequested =>
           \A t \in ProbeTimes, sender \in Accounts :
             t >= now =>
               Buy(t, sender, Purchase(TICKET_PRICE, <<1, 2, 3, 4, 5>>, <<1, 2>>)).err
                 = "DrawNotActive"
    ]_vars

C36_Witness ==
  /\ draws[1].randomnessRequested
  /\ draws[1].isCompleted
  /\ requests[1] = 1
  /\ settlements[1] = 1
  /\ draws[1].totalTickets = 2
  /\ Len(draws[1].players) = 2
  /\ Len(draws[1].winners) = 1

\* C37: the balance covers the pool of the current draw; a settlement in
\* which every payee accepts its payment, whatever the payee does on
\* receiving it, does not fail for lack of funds, and what leaves the
\* contract in one settlement is at most the pool of the settled draw.
C37_Solvency ==
  /\ balance >= draws[currentDrawId].totalPrizePool
  /\ \A q \in RequestIds \ {0}, onFee \in Calls \ {"refuse"},
        who \in {Owner, "alice"}, onPrize \in Calls \ {"refuse"} :
       (q < nextRequestId /\ Pending(q)) =>
         LET r == Calling(q, onFee, who, onPrize) IN
         /\ r.err # "TransferFailed"
         /\ r.settled =>
              SumOf(r.s.received, Accounts) - SumOf(received, Accounts)
                <= draws[vrfRequestIdToDraw[q]].totalPrizePool

\* C38: pausing blocks the purchase of tickets and nothing else: in every
\* paused state a purchase inside the window is rejected with Paused, the
\* owner's request after the window has closed is accepted (a request has
\* the outcome it has when the contract is not paused), and the delivery
\* for a pending request settles its draw, pays every winner its share,
\* opens the next draw and leaves the contract paused.
C38_PauseBlocksOnlyPurchase ==
  paused =>
    /\ \A t \in ProbeTimes, sender \in Accounts :
         InWindow(t) =>
           Buy(t, sender, Purchase(TICKET_PRICE, <<1, 2, 3, 4, 5>>, <<1, 2>>)).err
             = "Paused"
    /\ \A t \in ProbeTimes :
         LET r == Request(t)
             u == requestDrawRandomness([State EXCEPT !.paused = FALSE], t, Owner,
                                        nextRequestId)
         IN /\ r.err = u.err
            /\ r.s = [u.s EXCEPT !.paused = TRUE]
            /\ ( t > draws[currentDrawId].drawEndTime
                 /\ ~ draws[currentDrawId].randomnessRequested ) =>
                 /\ r.err = ""
                 /\ r.s.draws[currentDrawId].randomnessRequested
    /\ \A q \in RequestIds \ {0} :
         (Pending(q) /\ currentDrawId < MaxDrawId) =>
           LET d == vrfRequestIdToDraw[q]
               r == Deliver(q, <<0, 1, 2, 3, 4, 0, 1>>)
               k == Len(r.s.draws[d].winners)
               pool == draws[d].totalPrizePool
           IN /\ r.err = ""
              /\ r.settled
              /\ r.s.draws[d].isCompleted
              /\ r.s.currentDrawId = currentDrawId + 1
              /\ ~ r.s.draws[r.s.currentDrawId].isCompleted
              /\ r.s.draws[r.s.currentDrawId].drawStartTime = now
              /\ r.s.paused
              /\ \A i \in 1..k :
                   r.s.received[r.s.draws[d].winners[i]]
                     - received[r.s.draws[d].winners[i]]
                     >= (pool - HouseFee(pool)) \div k

C38_Witness ==
  /\ paused
  /\ settlements[1] = 1
  /\ requests[1] = 1
  /\ draws[1].winners = <<"alice">>
  /\ received["alice"] = TICKET_PRICE - HouseFee(TICKET_PRICE)
  /\ currentDrawId = 2
  /\ draws[2].drawStartTime = now

\* C39: every draw's window lasts seven days (drawEndTime = drawStartTime
\* + 7 days), and the windows of successive draws do not overlap: for
\* every n with 1 <= n < currentDrawId, draw n + 1 starts strictly after
\* draw n ends.
C39_WindowsDoNotOverlap ==
  /\ \A d \in 1..currentDrawId :
       draws[d].drawEndTime = draws[d].drawStartTime + SevenDays
  /\ \A n \in 1..(currentDrawId - 1) :
       draws[n + 1].drawStartTime > draws[n].drawEndTime

\* C39, the length of the window alone
C39_WindowIsSevenDays ==
  \A d \in 1..currentDrawId :
    draws[d].drawEndTime = draws[d].drawStartTime + SevenDays

====
